---- MODULE Spec2Model ----
(***************************************************************************)
(* A model of backend/app/services/lstm_service.py: one LSTMService        *)
(* instance shared by the threads that call predict,                       *)
(* pretrain_all_popular_stocks and retrain_if_needed.                      *)
(*                                                                         *)
(* Every step of a thread is one access to the state the threads share     *)
(* (self.model, self.scaler, self.model_info, self.currently_training,     *)
(* self.retraining_lock, the files under models/), together with the       *)
(* thread-local code that runs before the next such access.  The Python    *)
(* interpreter may switch threads between any two statements, so two       *)
(* statements are never one step.                                          *)
(*                                                                         *)
(* What a model, a scaler or a file holds is a tag [sym, run]: the symbol  *)
(* whose data it was fitted on and the training run that fitted it.        *)
(* Runs of this process are numbered from 1; run 0 is the run of an        *)
(* earlier process that left its artifact in models/; run -1 is a fit no   *)
(* training run made: the refit of self.scaler on live data (line 364).    *)
(* NoTag is no content: self.model = None, the unfitted scaler of          *)
(* __init__, a file that does not exist.                                   *)
(***************************************************************************)
EXTENDS Integers, Sequences, FiniteSets, TLC

(***************************************************************************)
(* Bounds of the model.                                                    *)
(***************************************************************************)
NThreads == 2
NDaemons == 1
MaxCalls == 2
MaxDay == 1
MaxDays == 1

(***************************************************************************)
(* The watch-list (load_popular_stocks) and the symbols callers ask for.   *)
(***************************************************************************)
popular_stocks == <<"A", "B">>
Popular == {popular_stocks[i] : i \in 1..Len(popular_stocks)}
Symbols == Popular \cup {"Z"}
\* The threads that serve requests, and with them the daemon threads that
\* retrain_if_needed starts (line 321).
Requests == 1..NThreads
Threads == 1..(NThreads + NDaemons)

NoTag == [sym |-> "-", run |-> 0]
Tag(s, r) == [sym |-> s, run |-> r]
LiveFit(s) == [sym |-> s, run |-> -1]
Earlier(s) == [sym |-> s, run |-> 0]
NoInfo == -1

\* The sets of symbols that may have an artifact when the process starts.
StartSets == {{}, {"A"}}

VARIABLES
    model,               \* self.model
    scaler,              \* self.scaler
    model_info,          \* self.model_info: symbol -> its 'last_training', or NoInfo
    currently_training,  \* self.currently_training
    retraining_lock,     \* self.retraining_lock: the thread holding it, 0 when free
    modelFile,           \* models/lstm_<SYM>.h5
    scalerFile,          \* models/scaler_<SYM>.pkl
    metricsFile,         \* models/metrics_<SYM>.json
    legacyModelFile,     \* whether models/lstm_model.h5 (self.model_path) exists
    clock,               \* datetime.now(), in minutes since midnight of day 0
    calls,               \* the calls made so far
    fc,                  \* one sequential predict call with its data (SpecForecast)
    callNo,              \* per thread: the number of its call
    op,                  \* per thread: the operation it runs
    pc,                  \* per thread: its position in the code
    sym,                 \* per thread: the symbol argument
    ret,                 \* per thread: who called train_model
    run,                 \* per thread: the number of its training run
    admitted,            \* per thread: it is between line 219 and line 278
    tres,                \* per thread: what train_model returned
    rejected,            \* per thread: predict's own train_model call returned 'training'
    jobs,                \* per thread: training jobs admitted during the current call
    idx,                 \* per thread: pretrain's position in popular_stocks
    results,             \* per thread: pretrain's results dict
    step,                \* per thread: iterations of lstm_predict's loop done
    days,                \* per thread: predict's days argument
    loaded,              \* per thread: the tags lstm_predict loaded <<model, scaler>>
    used,                \* per thread: the tags the forecast was computed from
    result,              \* per thread: what predict returned
    spawner              \* per thread: the thread whose call started it, 0 for a caller's own thread

shared == <<model, scaler, model_info, currently_training, retraining_lock,
            modelFile, scalerFile, metricsFile, legacyModelFile>>
locals == <<callNo, op, pc, sym, ret, run, admitted, tres, rejected, jobs, idx, results,
            step, days, loaded, used, result, spawner>>
vars == <<shared, clock, calls, fc, locals>>

NoUse == [model |-> {}, norm |-> NoTag, denorm |-> NoTag]
NoLoad == <<NoTag, NoTag>>

(***************************************************************************)
(* The clock, in minutes since midnight of day 0.  The code reads          *)
(* datetime.now(); the model lets the clock stand at three instants of     *)
(* each day: 10:00, 15:00 and 16:30.                                       *)
(***************************************************************************)
Instants == <<600, 900, 990>>
MinutesPerDay == 1440
MarketCloseMinute == 960
Midnight(now) == (now \div MinutesPerDay) * MinutesPerDay

\* line 164: now.replace(hour=16, minute=0, second=0, microsecond=0)
market_close(now) == Midnight(now) + MarketCloseMinute

\* line 166: (now - last_training) > timedelta(days=1) and now > market_close
Stale(last_training, now) ==
    /\ now - last_training > MinutesPerDay
    /\ now > market_close(now)

\* A variant the code is not: a symbol is retrained while any watch-list
\* symbol has no training on record.
should_retrain_any_symbol(s) ==
    IF ~legacyModelFile THEN TRUE
    ELSE IF \E x \in Popular : model_info[x] = NoInfo THEN TRUE
    ELSE Stale(model_info[s], clock)

\* should_retrain, lines 138-166
should_retrain(s) ==
    IF ~legacyModelFile THEN TRUE
    ELSE IF model_info[s] = NoInfo THEN TRUE
    ELSE Stale(model_info[s], clock)

(***************************************************************************)
(* The state after LSTMService.__init__ (lines 76-88).  models/ holds, for  *)
(* each symbol of Pretrained, the artifact an earlier process wrote, and   *)
(* load_model_info (lines 90-99) has read its 'last_training'.             *)
(* models/lstm_model.h5 is a file this code never writes: it is there or   *)
(* not, as the deployment left it.                                         *)
(***************************************************************************)
ArtifactsAtStart(P) ==
    /\ modelFile = [s \in Symbols |-> IF s \in P THEN Earlier(s) ELSE NoTag]
    /\ scalerFile = [s \in Symbols |-> IF s \in P THEN Earlier(s) ELSE NoTag]
    /\ metricsFile = [s \in Symbols |-> IF s \in P THEN Earlier(s) ELSE NoTag]
    /\ model_info = [s \in Symbols |-> IF s \in P THEN Instants[1] ELSE NoInfo]

\* The state after LSTMService() (lines 76-88), before any call.
Constructed ==
    /\ model = NoTag
    /\ scaler = NoTag
    /\ \E P \in StartSets : ArtifactsAtStart(P)
    /\ currently_training = {}
    /\ retraining_lock = 0
    /\ legacyModelFile \in BOOLEAN
    /\ clock = Instants[1]
    /\ calls = 0
    /\ callNo = [t \in Threads |-> 0]
    /\ op = [t \in Threads |-> "idle"]
    /\ pc = [t \in Threads |-> "idle"]
    /\ sym = [t \in Threads |-> "-"]
    /\ ret = [t \in Threads |-> "-"]
    /\ run = [t \in Threads |-> 0]
    /\ admitted = [t \in Threads |-> FALSE]
    /\ tres = [t \in Threads |-> "-"]
    /\ rejected = [t \in Threads |-> FALSE]
    /\ jobs = [t \in Threads |-> 0]
    /\ idx = [t \in Threads |-> 0]
    /\ results = [t \in Threads |-> [s \in Popular |-> "-"]]
    /\ step = [t \in Threads |-> 0]
    /\ days = [t \in Threads |-> 0]
    /\ loaded = [t \in Threads |-> NoLoad]
    /\ used = [t \in Threads |-> NoUse]
    /\ result = [t \in Threads |-> "-"]
    /\ spawner = [t \in Threads |-> 0]

\* No sequential call is followed for its values.
NoCall == [stage |-> "none"]

Init ==
    /\ Constructed
    /\ fc = NoCall

\* datetime.now() moves on between any two steps.
NextInstant(now) ==
    LET later == {i \in 1..Len(Instants) : Midnight(now) + Instants[i] > now}
    IN  IF later = {}
        THEN Midnight(now) + MinutesPerDay + Instants[1]
        ELSE Midnight(now) + Instants[CHOOSE i \in later : \A j \in later : i <= j]

Tick ==
    /\ NextInstant(clock) \div MinutesPerDay <= MaxDay
    /\ clock' = NextInstant(clock)
    /\ UNCHANGED <<shared, calls, fc, locals>>

(***************************************************************************)
(* simple_moving_average_predict (lines 402-444) touches no shared state:  *)
(* it returns a forecast, or None when the history is empty.               *)
(***************************************************************************)
FallbackOutcomes == {"SMA", "None"}

\* Threads are interchangeable: a new call runs on the first idle one.
FirstIdle(t) == op[t] = "idle" /\ \A u \in Threads : (u < t) => op[u] # "idle"
FirstIdleBut(t, b) ==
    /\ b # t
    /\ op[b] = "idle"
    /\ \A u \in Threads : (u < b /\ u # t) => op[u] # "idle"

(***************************************************************************)
(* What the caller of train_model does with its return value r, up to the  *)
(* caller's next access to shared state.                                   *)
(*   predict, lines 457-462: only a falsy result (False) takes the         *)
(*     fallback; 'training' and True both go on to lstm_predict.           *)
(*   lstm_predict, lines 355-359: 'training' is returned as the status,    *)
(*     False raises (line 398: None, and predict takes the fallback).      *)
(*   retrain_thread, lines 318-319: leaves the with block.                 *)
(*   pretrain_all_popular_stocks, lines 478-479: records r, next symbol.   *)
(***************************************************************************)
Continue(t, r) ==
    /\ tres' = [tres EXCEPT ![t] = "-"]
    /\ CASE ret[t] = "predict" ->
              /\ rejected' = [rejected EXCEPT ![t] = (r = "training")]
              /\ IF r = "False"
                 THEN /\ \E o \in FallbackOutcomes : result' = [result EXCEPT ![t] = o]
                      /\ pc' = [pc EXCEPT ![t] = "done"]
                 ELSE /\ pc' = [pc EXCEPT ![t] = "lp_exists"]
                      /\ UNCHANGED result
              /\ UNCHANGED <<idx, results, sym>>
         [] ret[t] = "lstm_predict" ->
              /\ IF r = "training"
                 THEN /\ result' = [result EXCEPT ![t] = "training"]
                      /\ pc' = [pc EXCEPT ![t] = "done"]
                 ELSE IF r = "False"
                 THEN /\ \E o \in FallbackOutcomes : result' = [result EXCEPT ![t] = o]
                      /\ pc' = [pc EXCEPT ![t] = "done"]
                 ELSE /\ pc' = [pc EXCEPT ![t] = "lp_fit_scaler"]
                      /\ UNCHANGED result
              /\ UNCHANGED <<rejected, idx, results, sym>>
         [] ret[t] = "retrain_thread" ->
              /\ pc' = [pc EXCEPT ![t] = "rt_unlock"]
              /\ UNCHANGED <<rejected, result, idx, results, sym>>
         [] ret[t] = "pretrain" ->
              /\ results' = [results EXCEPT ![t][sym[t]] = r]
              /\ idx' = [idx EXCEPT ![t] = idx[t] + 1]
              /\ IF idx[t] + 1 > Len(popular_stocks)
                 THEN /\ pc' = [pc EXCEPT ![t] = "done"]
                      /\ UNCHANGED sym
                 ELSE /\ pc' = [pc EXCEPT ![t] = "tm_check"]
                      /\ sym' = [sym EXCEPT ![t] = popular_stocks[idx[t] + 1]]
              /\ UNCHANGED <<rejected, result>>

\* The locals no step of train_model changes.
TmFrame == UNCHANGED <<callNo, op, ret, step, days, loaded, used, spawner>>

(***************************************************************************)
(* train_model, lines 210-278.                                             *)
(***************************************************************************)
\* A variant the code is not: the membership test inside the try block, so
\* that the refused call leaves through the finally block.
TmCheckInsideTry(t) ==
    /\ pc[t] = "tm_check"
    /\ IF sym[t] \in currently_training
       THEN /\ pc' = [pc EXCEPT ![t] = "tm_finally"]
            /\ tres' = [tres EXCEPT ![t] = "training"]
            /\ UNCHANGED <<run, admitted, jobs, rejected, result, idx, results, sym>>
       ELSE /\ pc' = [pc EXCEPT ![t] = "tm_add"]
            /\ UNCHANGED <<run, admitted, jobs, tres, rejected, result, idx, results, sym>>
    /\ UNCHANGED <<callNo, op, ret, step, days, loaded, used, spawner>>
    /\ UNCHANGED <<shared, clock, calls, fc>>

\* lines 215-217: the membership test.  When the symbol is in the set the
\* call returns 'training'; the finally block is not entered (the return
\* is before the try).
TmCheck(t) ==
    /\ pc[t] = "tm_check"
    /\ IF sym[t] \in currently_training
       THEN /\ Continue(t, "training")
            /\ UNCHANGED <<run, admitted, jobs>>
       ELSE /\ pc' = [pc EXCEPT ![t] = "tm_add"]
            /\ UNCHANGED <<run, admitted, jobs, tres, rejected, result, idx, results, sym>>
    /\ TmFrame
    /\ UNCHANGED <<shared, clock, calls, fc>>

\* A call admits at most two training runs (predict: lines 457 and 355;
\* pretrain: one per watch-list symbol), which numbers them.
JobsPerCall == IF Len(popular_stocks) > 2 THEN Len(popular_stocks) ELSE 2
RunNumber(t) == JobsPerCall * (callNo[t] - 1) + jobs[t] + 1

\* line 219: self.currently_training.add(symbol)
TmAdd(t) ==
    /\ pc[t] = "tm_add"
    /\ currently_training' = currently_training \cup {sym[t]}
    /\ admitted' = [admitted EXCEPT ![t] = TRUE]
    /\ run' = [run EXCEPT ![t] = RunNumber(t)]
    /\ jobs' = [jobs EXCEPT ![t] = jobs[t] + 1]
    /\ pc' = [pc EXCEPT ![t] = "tm_prepare"]
    /\ TmFrame
    /\ UNCHANGED <<model, scaler, model_info, retraining_lock, modelFile, scalerFile,
                   metricsFile, legacyModelFile, clock, calls, fc,
                   tres, rejected, result, idx, results, sym>>

\* A step of the try block raises: line 274-276 sets the result to False,
\* and the finally block is next.
TmRaise(t) ==
    /\ pc' = [pc EXCEPT ![t] = "tm_finally"]
    /\ tres' = [tres EXCEPT ![t] = "False"]
    /\ UNCHANGED <<run, admitted, jobs, rejected, result, idx, results, sym>>
    /\ TmFrame

TmGoto(t, label) ==
    /\ pc' = [pc EXCEPT ![t] = label]
    /\ UNCHANGED <<run, admitted, jobs, tres, rejected, result, idx, results, sym>>
    /\ TmFrame

\* lines 220-238: the history is fetched and cleaned; an empty or short
\* history raises.  Otherwise prepare_data (line 174) fits self.scaler.
TmPrepare(t) ==
    /\ pc[t] = "tm_prepare"
    /\ \/ /\ TmRaise(t)
          /\ UNCHANGED scaler
       \/ /\ scaler' = Tag(sym[t], run[t])
          /\ TmGoto(t, "tm_build")
    /\ UNCHANGED <<model, model_info, currently_training, retraining_lock, modelFile,
                   scalerFile, metricsFile, legacyModelFile, clock, calls, fc>>

\* line 242: self.model = self.build_model(...)
TmBuild(t) ==
    /\ pc[t] = "tm_build"
    /\ model' = Tag(sym[t], run[t])
    /\ TmGoto(t, "tm_fit")
    /\ UNCHANGED <<scaler, model_info, currently_training, retraining_lock, modelFile,
                   scalerFile, metricsFile, legacyModelFile, clock, calls, fc>>

\* lines 245-251: self.model.fit(X, y) fits whatever self.model is now on
\* this run's examples, or raises.
TmFit(t) ==
    /\ pc[t] = "tm_fit"
    /\ \/ /\ TmRaise(t)
          /\ UNCHANGED model
       \/ /\ model' = Tag(sym[t], run[t])
          /\ TmGoto(t, "tm_save_model")
    /\ UNCHANGED <<scaler, model_info, currently_training, retraining_lock, modelFile,
                   scalerFile, metricsFile, legacyModelFile, clock, calls, fc>>

\* line 254: self.model.save(model_path) writes whatever self.model is now,
\* or raises.
TmSaveModel(t) ==
    /\ pc[t] = "tm_save_model"
    /\ \/ /\ TmRaise(t)
          /\ UNCHANGED modelFile
       \/ /\ modelFile' = [modelFile EXCEPT ![sym[t]] = model]
          /\ TmGoto(t, "tm_fit_scaler")
    /\ UNCHANGED <<model, scaler, model_info, currently_training, retraining_lock,
                   scalerFile, metricsFile, legacyModelFile, clock, calls, fc>>

\* line 255: self.scaler.fit(features)
TmFitScaler(t) ==
    /\ pc[t] = "tm_fit_scaler"
    /\ scaler' = Tag(sym[t], run[t])
    /\ TmGoto(t, "tm_dump_scaler")
    /\ UNCHANGED <<model, model_info, currently_training, retraining_lock, modelFile,
                   scalerFile, metricsFile, legacyModelFile, clock, calls, fc>>

\* line 256: joblib.dump(self.scaler, scaler_path), or it raises.
TmDumpScaler(t) ==
    /\ pc[t] = "tm_dump_scaler"
    /\ \/ /\ TmRaise(t)
          /\ UNCHANGED scalerFile
       \/ /\ scalerFile' = [scalerFile EXCEPT ![sym[t]] = scaler]
          /\ TmGoto(t, "tm_metrics")
    /\ UNCHANGED <<model, scaler, model_info, currently_training, retraining_lock,
                   modelFile, metricsFile, legacyModelFile, clock, calls, fc>>

\* lines 259-262: the metrics of self.model are computed and written, or
\* that raises.
TmMetrics(t) ==
    /\ pc[t] = "tm_metrics"
    /\ \/ /\ TmRaise(t)
          /\ UNCHANGED metricsFile
       \/ /\ metricsFile' = [metricsFile EXCEPT ![sym[t]] = model]
          /\ TmGoto(t, "tm_info")
    /\ UNCHANGED <<model, scaler, model_info, currently_training, retraining_lock,
                   modelFile, scalerFile, legacyModelFile, clock, calls, fc>>

\* lines 265-273: self.model_info[symbol] = {'last_training': now, ...};
\* save_model_info (lines 101-106) swallows its errors; return True.
TmInfo(t) ==
    /\ pc[t] = "tm_info"
    /\ model_info' = [model_info EXCEPT ![sym[t]] = clock]
    /\ pc' = [pc EXCEPT ![t] = "tm_finally"]
    /\ tres' = [tres EXCEPT ![t] = "True"]
    /\ UNCHANGED <<run, admitted, jobs, rejected, result, idx, results, sym>>
    /\ TmFrame
    /\ UNCHANGED <<model, scaler, currently_training, retraining_lock, modelFile,
                   scalerFile, metricsFile, legacyModelFile, clock, calls, fc>>

\* A variant the code is not: the discard as the last statement of the try
\* block, which a raise skips.
EndTrainingOnSuccess(t) ==
    IF tres[t] = "True" THEN currently_training \ {sym[t]} ELSE currently_training

\* line 278: self.currently_training.discard(symbol)
EndTraining(t) == currently_training \ {sym[t]}

\* lines 277-278: the finally block, on every way out of the try block; then
\* the caller goes on with the result.
TmFinally(t) ==
    /\ pc[t] = "tm_finally"
    /\ currently_training' = EndTraining(t)
    /\ admitted' = [admitted EXCEPT ![t] = FALSE]
    /\ Continue(t, tres[t])
    /\ run' = [run EXCEPT ![t] = 0]
    /\ UNCHANGED jobs
    /\ TmFrame
    /\ UNCHANGED <<model, scaler, model_info, retraining_lock, modelFile, scalerFile,
                   metricsFile, legacyModelFile, clock, calls, fc>>

train_model(t) ==
    \/ TmCheck(t)
    \/ TmAdd(t)
    \/ TmPrepare(t)
    \/ TmBuild(t)
    \/ TmFit(t)
    \/ TmSaveModel(t)
    \/ TmFitScaler(t)
    \/ TmDumpScaler(t)
    \/ TmMetrics(t)
    \/ TmInfo(t)
    \/ TmFinally(t)

(***************************************************************************)
(* predict, lines 446-467, and lstm_predict, lines 340-400.                *)
(***************************************************************************)
\* A variant the code is not: predict hands train_model to a daemon thread,
\* as retrain_if_needed does, and goes on.
PredictTrainsInBackground(t) ==
    \E b \in Threads :
        /\ FirstIdleBut(t, b)
        /\ op' = [op EXCEPT ![b] = "retrain_thread"]
        /\ pc' = [pc EXCEPT ![t] = "lp_exists", ![b] = "tm_check"]
        /\ ret' = [ret EXCEPT ![b] = "retrain_thread"]
        /\ sym' = [sym EXCEPT ![b] = sym[t]]
        /\ spawner' = [spawner EXCEPT ![b] = t]
        /\ callNo' = [callNo EXCEPT ![b] = callNo[t]]
        /\ UNCHANGED <<run, admitted, tres, rejected, jobs, idx, results,
                       step, days, loaded, used, result>>

\* line 457: predict calls train_model itself, in the calling thread.
PredictTrains(t) ==
    /\ pc' = [pc EXCEPT ![t] = "tm_check"]
    /\ ret' = [ret EXCEPT ![t] = "predict"]
    /\ UNCHANGED <<callNo, op, sym, run, admitted, tres, rejected, jobs, idx, results,
                   step, days, loaded, used, result, spawner>>

\* lines 452-453 and 466-467: a symbol outside the watch-list gets the
\* fallback at once; a watch-list symbol goes on to line 455.
Predict(t, s, d) ==
    /\ FirstIdle(t)
    /\ calls < MaxCalls
    /\ calls' = calls + 1
    /\ callNo' = [callNo EXCEPT ![t] = calls + 1]
    /\ op' = [op EXCEPT ![t] = "predict"]
    /\ sym' = [sym EXCEPT ![t] = s]
    /\ days' = [days EXCEPT ![t] = d]
    /\ IF s \in Popular
       THEN /\ pc' = [pc EXCEPT ![t] = "p_should"]
            /\ UNCHANGED result
       ELSE /\ pc' = [pc EXCEPT ![t] = "done"]
            /\ \E o \in FallbackOutcomes : result' = [result EXCEPT ![t] = o]
    /\ UNCHANGED <<ret, run, admitted, tres, rejected, jobs, idx, results, step,
                   loaded, used, spawner>>
    /\ UNCHANGED <<shared, clock, fc>>

\* line 455: if self.should_retrain(symbol)
PShould(t) ==
    /\ pc[t] = "p_should"
    /\ IF should_retrain(sym[t])
       THEN PredictTrains(t)
       ELSE /\ pc' = [pc EXCEPT ![t] = "lp_exists"]
            /\ UNCHANGED <<callNo, op, sym, ret, run, admitted, tres, rejected, jobs, idx,
                           results, step, days, loaded, used, result, spawner>>
    /\ UNCHANGED <<shared, clock, calls, fc>>

\* The locals only predict's own steps change.
LpFrame == UNCHANGED <<callNo, op, sym, run, admitted, tres, rejected, jobs, idx, results,
                       days, spawner>>

\* A variant the code is not: lstm_predict trains without looking for the
\* files.
LpAlwaysTrains(t) ==
    /\ pc[t] = "lp_exists"
    /\ pc' = [pc EXCEPT ![t] = "tm_check"]
    /\ ret' = [ret EXCEPT ![t] = "lstm_predict"]
    /\ UNCHANGED <<callNo, op, sym, run, admitted, tres, rejected, jobs, idx, results,
                   days, spawner>>
    /\ UNCHANGED <<step, loaded, used, result>>
    /\ UNCHANGED <<shared, clock, calls, fc>>

\* line 351: both files exist, or (line 355) lstm_predict trains.
LpExists(t) ==
    /\ pc[t] = "lp_exists"
    /\ IF modelFile[sym[t]] # NoTag /\ scalerFile[sym[t]] # NoTag
       THEN /\ pc' = [pc EXCEPT ![t] = "lp_load_model"]
            /\ UNCHANGED ret
       ELSE /\ pc' = [pc EXCEPT ![t] = "tm_check"]
            /\ ret' = [ret EXCEPT ![t] = "lstm_predict"]
    /\ LpFrame
    /\ UNCHANGED <<step, loaded, used, result>>
    /\ UNCHANGED <<shared, clock, calls, fc>>

\* line 352: self.model = tf.keras.models.load_model(model_path)
LpLoadModel(t) ==
    /\ pc[t] = "lp_load_model"
    /\ model' = modelFile[sym[t]]
    /\ loaded' = [loaded EXCEPT ![t][1] = modelFile[sym[t]]]
    /\ pc' = [pc EXCEPT ![t] = "lp_load_scaler"]
    /\ LpFrame
    /\ UNCHANGED <<ret, step, used, result>>
    /\ UNCHANGED <<scaler, model_info, currently_training, retraining_lock, modelFile,
                   scalerFile, metricsFile, legacyModelFile, clock, calls, fc>>

\* line 353: self.scaler = joblib.load(scaler_path)
LpLoadScaler(t) ==
    /\ pc[t] = "lp_load_scaler"
    /\ scaler' = scalerFile[sym[t]]
    /\ loaded' = [loaded EXCEPT ![t][2] = scalerFile[sym[t]]]
    /\ pc' = [pc EXCEPT ![t] = "lp_fit_scaler"]
    /\ LpFrame
    /\ UNCHANGED <<ret, step, used, result>>
    /\ UNCHANGED <<model, model_info, currently_training, retraining_lock, modelFile,
                   scalerFile, metricsFile, legacyModelFile, clock, calls, fc>>

\* lines 361-364: the live history is fetched; self.scaler.fit(features)
\* refits self.scaler on it.  An empty history raises there (line 398: None,
\* and predict takes the fallback, line 464).
LpFitScaler(t) ==
    /\ pc[t] = "lp_fit_scaler"
    /\ \/ /\ \E o \in FallbackOutcomes : result' = [result EXCEPT ![t] = o]
          /\ pc' = [pc EXCEPT ![t] = "done"]
          /\ UNCHANGED scaler
       \/ /\ scaler' = LiveFit(sym[t])
          /\ pc' = [pc EXCEPT ![t] = "lp_transform"]
          /\ UNCHANGED result
    /\ LpFrame
    /\ UNCHANGED <<ret, step, loaded, used>>
    /\ UNCHANGED <<model, model_info, currently_training, retraining_lock, modelFile,
                   scalerFile, metricsFile, legacyModelFile, clock, calls, fc>>

\* line 365: scaled_data = self.scaler.transform(features)
LpTransform(t) ==
    /\ pc[t] = "lp_transform"
    /\ used' = [used EXCEPT ![t].norm = scaler]
    /\ step' = [step EXCEPT ![t] = 0]
    /\ pc' = [pc EXCEPT ![t] = "lp_loop"]
    /\ LpFrame
    /\ UNCHANGED <<ret, loaded, result>>
    /\ UNCHANGED <<shared, clock, calls, fc>>

\* line 371, once per iteration: self.model.predict(current_sequence)
LpLoop(t) ==
    /\ pc[t] = "lp_loop"
    /\ used' = [used EXCEPT ![t].model = @ \cup {model}]
    /\ step' = [step EXCEPT ![t] = step[t] + 1]
    /\ pc' = [pc EXCEPT ![t] = IF step[t] + 1 >= days[t] THEN "lp_inverse" ELSE "lp_loop"]
    /\ LpFrame
    /\ UNCHANGED <<ret, loaded, result>>
    /\ UNCHANGED <<shared, clock, calls, fc>>

\* line 382: inv = self.scaler.inverse_transform(dummy); lines 383-397 build
\* the result from it.
LpInverse(t) ==
    /\ pc[t] = "lp_inverse"
    /\ used' = [used EXCEPT ![t].denorm = scaler]
    /\ result' = [result EXCEPT ![t] = "LSTM"]
    /\ pc' = [pc EXCEPT ![t] = "done"]
    /\ LpFrame
    /\ UNCHANGED <<ret, step, loaded>>
    /\ UNCHANGED <<shared, clock, calls, fc>>

(***************************************************************************)
(* pretrain_all_popular_stocks, lines 469-483.                             *)
(***************************************************************************)
Pretrain(t) ==
    /\ FirstIdle(t)
    /\ \A u \in Threads : op[u] # "pretrain"
    /\ calls < MaxCalls
    /\ calls' = calls + 1
    /\ callNo' = [callNo EXCEPT ![t] = calls + 1]
    /\ op' = [op EXCEPT ![t] = "pretrain"]
    /\ idx' = [idx EXCEPT ![t] = 1]
    /\ sym' = [sym EXCEPT ![t] = popular_stocks[1]]
    /\ ret' = [ret EXCEPT ![t] = "pretrain"]
    /\ pc' = [pc EXCEPT ![t] = "tm_check"]
    /\ UNCHANGED <<run, admitted, tres, rejected, jobs, results, step, days, loaded,
                   used, result, spawner>>
    /\ UNCHANGED <<shared, clock, fc>>

(***************************************************************************)
(* retrain_if_needed, lines 303-321.  The caller t returns at line 312 or  *)
(* after starting the daemon thread b at line 321.                         *)
(***************************************************************************)
RetrainIfNeeded(t, b, s) ==
    /\ FirstIdle(t)
    /\ FirstIdleBut(t, b)
    /\ calls < MaxCalls
    /\ calls' = calls + 1
    /\ IF should_retrain(s)
       THEN /\ op' = [op EXCEPT ![t] = "retrain_if_needed", ![b] = "retrain_thread"]
            /\ pc' = [pc EXCEPT ![t] = "done", ![b] = "rt_lock"]
            /\ sym' = [sym EXCEPT ![t] = s, ![b] = s]
            /\ spawner' = [spawner EXCEPT ![b] = t]
            /\ callNo' = [callNo EXCEPT ![t] = calls + 1, ![b] = calls + 1]
       ELSE /\ op' = [op EXCEPT ![t] = "retrain_if_needed"]
            /\ pc' = [pc EXCEPT ![t] = "done"]
            /\ sym' = [sym EXCEPT ![t] = s]
            /\ callNo' = [callNo EXCEPT ![t] = calls + 1]
            /\ UNCHANGED spawner
    /\ UNCHANGED <<ret, run, admitted, tres, rejected, jobs, idx, results, step, days,
                   loaded, used, result>>
    /\ UNCHANGED <<shared, clock, fc>>

RtFrame == UNCHANGED <<callNo, op, sym, run, admitted, tres, rejected, jobs, idx, results,
                       step, days, loaded, used, result, spawner>>

\* A variant the code is not: the thread goes on without waiting for the lock.
RtLockNoWait(b) ==
    /\ pc[b] = "rt_lock"
    /\ retraining_lock' = b
    /\ pc' = [pc EXCEPT ![b] = "rt_check"]
    /\ UNCHANGED ret
    /\ UNCHANGED <<callNo, op, sym, run, admitted, tres, rejected, jobs, idx, results,
                   step, days, loaded, used, result, spawner>>
    /\ UNCHANGED <<model, scaler, model_info, currently_training, modelFile, scalerFile,
                   metricsFile, legacyModelFile, clock, calls, fc>>

\* line 315: with self.retraining_lock
RtLock(b) ==
    /\ pc[b] = "rt_lock"
    /\ retraining_lock = 0
    /\ retraining_lock' = b
    /\ pc' = [pc EXCEPT ![b] = "rt_check"]
    /\ UNCHANGED ret
    /\ RtFrame
    /\ UNCHANGED <<model, scaler, model_info, currently_training, modelFile, scalerFile,
                   metricsFile, legacyModelFile, clock, calls, fc>>

\* line 316: the second should_retrain, under the lock
RtCheck(b) ==
    /\ pc[b] = "rt_check"
    /\ IF should_retrain(sym[b])
       THEN /\ pc' = [pc EXCEPT ![b] = "tm_check"]
            /\ ret' = [ret EXCEPT ![b] = "retrain_thread"]
       ELSE /\ pc' = [pc EXCEPT ![b] = "rt_unlock"]
            /\ UNCHANGED ret
    /\ RtFrame
    /\ UNCHANGED <<shared, clock, calls, fc>>

\* the end of the with block releases the lock; the thread ends.
RtUnlock(b) ==
    /\ pc[b] = "rt_unlock"
    /\ retraining_lock' = 0
    /\ pc' = [pc EXCEPT ![b] = "done"]
    /\ UNCHANGED ret
    /\ RtFrame
    /\ UNCHANGED <<model, scaler, model_info, currently_training, modelFile, scalerFile,
                   metricsFile, legacyModelFile, clock, calls, fc>>

\* The call has returned (the thread has ended): its locals are gone.
Return(t) ==
    /\ pc[t] = "done"
    /\ op' = [op EXCEPT ![t] = "idle"]
    /\ callNo' = [callNo EXCEPT ![t] = 0]
    /\ pc' = [pc EXCEPT ![t] = "idle"]
    /\ sym' = [sym EXCEPT ![t] = "-"]
    /\ ret' = [ret EXCEPT ![t] = "-"]
    /\ run' = [run EXCEPT ![t] = 0]
    /\ tres' = [tres EXCEPT ![t] = "-"]
    /\ rejected' = [rejected EXCEPT ![t] = FALSE]
    /\ jobs' = [jobs EXCEPT ![t] = 0]
    /\ idx' = [idx EXCEPT ![t] = 0]
    /\ results' = [results EXCEPT ![t] = [s \in Popular |-> "-"]]
    /\ step' = [step EXCEPT ![t] = 0]
    /\ days' = [days EXCEPT ![t] = 0]
    /\ loaded' = [loaded EXCEPT ![t] = NoLoad]
    /\ used' = [used EXCEPT ![t] = NoUse]
    /\ result' = [result EXCEPT ![t] = "-"]
    /\ spawner' = [u \in Threads |-> IF u = t \/ spawner[u] = t THEN 0 ELSE spawner[u]]
    /\ UNCHANGED admitted
    /\ UNCHANGED <<shared, clock, calls, fc>>

Next ==
    \/ \E t \in Requests : \E s \in Symbols : \E d \in 1..MaxDays : Predict(t, s, d)
    \/ \E t \in Threads : PShould(t)
    \/ \E t \in Threads : LpExists(t)
    \/ \E t \in Threads : LpLoadModel(t)
    \/ \E t \in Threads : LpLoadScaler(t)
    \/ \E t \in Threads : LpFitScaler(t)
    \/ \E t \in Threads : LpTransform(t)
    \/ \E t \in Threads : LpLoop(t)
    \/ \E t \in Threads : LpInverse(t)
    \/ \E t \in Requests : Pretrain(t)
    \/ \E t \in Requests : \E b \in Requests : \E s \in Popular : RetrainIfNeeded(t, b, s)
    \/ \E b \in Threads : RtLock(b)
    \/ \E b \in Threads : RtCheck(b)
    \/ \E b \in Threads : RtUnlock(b)
    \/ \E t \in Threads : train_model(t)
    \/ \E t \in Threads : Return(t)

Spec == Init /\ [][Next]_vars

(***************************************************************************)
(* The same service over two days, one call at a time: the clock moves,    *)
(* and a call starts when no other call runs (the daemon thread of         *)
(* retrain_if_needed runs beside its caller).                              *)
(***************************************************************************)
Quiet == \A u \in Threads : op[u] = "idle"

NextDaily ==
    \/ Tick
    \/ \E s \in Symbols : \E d \in 1..MaxDays : Quiet /\ Predict(1, s, d)
    \/ \E s \in Popular : Quiet /\ RetrainIfNeeded(1, 2, s)
    \/ \E t \in Threads : PShould(t)
    \/ \E t \in Threads : LpExists(t)
    \/ \E t \in Threads : LpLoadModel(t)
    \/ \E t \in Threads : LpLoadScaler(t)
    \/ \E t \in Threads : LpFitScaler(t)
    \/ \E t \in Threads : LpTransform(t)
    \/ \E t \in Threads : LpLoop(t)
    \/ \E t \in Threads : LpInverse(t)
    \/ \E b \in Threads : RtLock(b)
    \/ \E b \in Threads : RtCheck(b)
    \/ \E b \in Threads : RtUnlock(b)
    \/ \E t \in Threads : train_model(t)
    \/ \E t \in Threads : Return(t)

SpecDaily == Init /\ [][NextDaily]_vars

(***************************************************************************)
(* Calls of retrain_if_needed only, one after the other, each returning    *)
(* at once while the daemon threads they started run side by side.         *)
(***************************************************************************)
NextRetrain ==
    \/ \E t \in Threads : \E b \in Threads : \E s \in Popular : RetrainIfNeeded(t, b, s)
    \/ \E b \in Threads : RtLock(b)
    \/ \E b \in Threads : RtCheck(b)
    \/ \E b \in Threads : RtUnlock(b)
    \/ \E t \in Threads : train_model(t)
    \/ \E t \in Threads : Return(t)

SpecRetrain == Init /\ [][NextRetrain]_vars

(***************************************************************************)
(* The values of a forecast.  One predict call runs alone, start to end,   *)
(* on a close series the provider returns.  Prices are exact fractions:    *)
(* a forecast carries numerators and their common denominator 'den'.       *)
(***************************************************************************)
MaxClose == 3
MaxTail == 3
MaxHorizon == 2
MaxNoise == 1
sequence_length == 60
TrainingMargin == 10
window == 20
TrendWindow == 10
OutputDen == 2
MaxPreds == 3
DaysPerWeek == 7
Saturday == 5
PrimaryConfidence == 80
MaxConfidence == 70
MinConfidence == 30
\* st.norm.ppf(1 - (1 - 0.95) / 2) (line 298), in hundredths
z == 196

\* the closes of the provider's bars: a low price and a high one
Closes == {1, MaxClose}
PadLens == {0, 8, 58, 67}
Horizons == 1..MaxHorizon
\* np.random.normal (line 431), in whole price units
NoiseUnits == (0 - MaxNoise)..MaxNoise
\* self.model.predict (line 371): a normalised close, in halves
ModelOutputs == 0..OutputDen
\* hist.index[-1]: the day of the last bar, a day number whose remainder
\* by 7 is the weekday (Monday = 0); here a Thursday or a Friday, so that
\* the days that follow run into a weekend
BarDays == {Saturday - 2, Saturday - 1}

RECURSIVE TailsOf(_)
TailsOf(n) ==
    IF n = 0 THEN {<<>>}
    ELSE LET shorter == TailsOf(n - 1)
         IN  shorter \cup {Append(q, c) : q \in {r \in shorter : Len(r) = n - 1}, c \in Closes}

\* The provider's daily closes, oldest first: a flat stretch, then a tail.
Series ==
    {[i \in 1..(k + Len(q)) |-> IF i <= k THEN v ELSE q[i - k]] :
        k \in PadLens, v \in Closes, q \in TailsOf(MaxTail)}

RECURSIVE Sum(_)
Sum(q) == IF q = <<>> THEN 0 ELSE q[1] + Sum(Tail(q))

\* q[-k:]
LastK(q, k) == IF Len(q) <= k THEN q ELSE SubSeq(q, Len(q) - k + 1, Len(q))

\* np.diff
Diff(q) == [i \in 1..(Len(q) - 1) |-> q[i + 1] - q[i]]

\* np.std(q) > 0
Spread(q) == \E i, j \in 1..Len(q) : q[i] # q[j]

Max(a, b) == IF a >= b THEN a ELSE b
SeqMin(q) == CHOOSE x \in {q[i] : i \in 1..Len(q)} : \A i \in 1..Len(q) : x <= q[i]
SeqMax(q) == CHOOSE x \in {q[i] : i \in 1..Len(q)} : \A i \in 1..Len(q) : x >= q[i]

NoneResult == [model |-> "None", den |-> 1, current_price |-> 0, predicted_prices |-> <<>>]

\* A variant the code is not: weekday() < 6, which keeps Saturdays.
RECURSIVE next_days_with_saturday(_, _)
next_days_with_saturday(last_date, num_days) ==
    IF num_days <= 0 THEN <<>>
    ELSE LET current == last_date + 1
         IN  IF current % DaysPerWeek <= Saturday
             THEN <<current>> \o next_days_with_saturday(current, num_days - 1)
             ELSE next_days_with_saturday(current, num_days)

\* get_next_trading_days, lines 323-338: the loop, one day per iteration
RECURSIVE get_next_trading_days(_, _)
get_next_trading_days(last_date, num_days) ==
    IF num_days <= 0 THEN <<>>
    ELSE LET current == last_date + 1
         IN  IF current % DaysPerWeek < Saturday
             THEN <<current>> \o get_next_trading_days(current, num_days - 1)
             ELSE get_next_trading_days(current, num_days)

\* lines 418-420 and 439: round(max(0.3, min(0.7, 0.7 - std/mean)), 2), in
\* hundredths.  With S the sum and Q the sum of squares of the n closes,
\* (std/mean)^2 = (n*Q - S^2) / S^2, so the comparisons are on squares.
SumSq(q) == Sum([i \in 1..Len(q) |-> q[i] * q[i]])
\* A variant the code is not: min(0.7, 0.7 - std/mean) with no floor of 0.3.
fallback_confidence_no_floor(recent_prices) ==
    LET n == Len(recent_prices)
        S == Sum(recent_prices)
        V == n * SumSq(recent_prices) - S * S
    IN  CHOOSE r \in (MaxConfidence - 200)..MaxConfidence :
            /\ (2 * (MaxConfidence - r) + 1) * (2 * (MaxConfidence - r) + 1) * S * S
                   >= 40000 * V
            /\ \/ r = MaxConfidence
               \/ (2 * (MaxConfidence - r) - 1) * (2 * (MaxConfidence - r) - 1) * S * S
                     < 40000 * V

fallback_confidence(recent_prices) ==
    LET n == Len(recent_prices)
        S == Sum(recent_prices)
        V == n * SumSq(recent_prices) - S * S
        span == 2 * (MaxConfidence - MinConfidence)
    IN  IF span * span * S * S <= 40000 * V THEN MinConfidence
        ELSE CHOOSE r \in MinConfidence..MaxConfidence :
                /\ (2 * (MaxConfidence - r) + 1) * (2 * (MaxConfidence - r) + 1) * S * S
                       >= 40000 * V
                /\ \/ r = MaxConfidence
                   \/ (2 * (MaxConfidence - r) - 1) * (2 * (MaxConfidence - r) - 1) * S * S
                         < 40000 * V

\* A variant the code is not: the walk with no floor under it.
RECURSIVE walk_without_floor(_, _, _, _, _, _)
walk_without_floor(current_pred, trend_component, floor, den, noise, i) ==
    IF i > Len(noise) THEN <<>>
    ELSE LET next == current_pred + trend_component + noise[i] * den
         IN  <<next>> \o walk_without_floor(next, trend_component, floor, den, noise, i + 1)

\* lines 428-433, with every price times 'den'
RECURSIVE Walk(_, _, _, _, _, _)
Walk(current_pred, trend_component, floor, den, noise, i) ==
    IF i > Len(noise) THEN <<>>
    ELSE LET next == Max(current_pred + trend_component + noise[i] * den, floor)
         IN  <<next>> \o Walk(next, trend_component, floor, den, noise, i + 1)

\* simple_moving_average_predict, lines 402-444, on the series its fetch
\* returns; noise[i] is the draw of day i, and is 0 when the deviation is 0.
simple_moving_average_predict(hist, last_date, noise) ==
    IF hist = <<>> THEN NoneResult
    ELSE LET recent_prices == LastK(hist, window)
             n == Len(recent_prices)
             den == 2 * (TrendWindow - 1) * n
             sma == 2 * (TrendWindow - 1) * Sum(recent_prices)
             last_price == hist[Len(hist)] * den
             trend_component ==
                 IF n >= TrendWindow
                 THEN n * (recent_prices[n] - recent_prices[n - TrendWindow + 1])
                 ELSE 0
             daily_volatility ==
                 IF n >= TrendWindow
                 THEN Spread(Diff(LastK(recent_prices, TrendWindow)))
                 ELSE Spread(recent_prices)
             drawn == [i \in 1..Len(noise) |-> IF daily_volatility THEN noise[i] ELSE 0]
         IN  [model |-> "SMA", den |-> den, current_price |-> last_price,
              predicted_prices |-> Walk(sma, trend_component, last_price \div 2, den, drawn, 1),
              prediction_dates |-> get_next_trading_days(last_date, Len(noise)),
              confidence |-> fallback_confidence(recent_prices)]

\* MinMaxScaler.inverse_transform of the close column after line 364's fit,
\* times OutputDen; a zero range scales by 1.
inverse_transform(hist, p) ==
    LET lo == SeqMin(hist)
        hi == SeqMax(hist)
        range == IF hi = lo THEN 1 ELSE hi - lo
    IN  p * range + OutputDen * lo

\* The largest integer whose square is at most n.
RECURSIVE Isqrt(_)
Isqrt(n) ==
    IF n < 2 THEN n
    ELSE LET s == 2 * Isqrt(n \div 4)
         IN  IF (s + 1) * (s + 1) > n THEN s ELSE s + 1

\* A variant the code is not: the errors against the head of the actuals,
\* actuals[:len(predictions)].
interval_from_head(actuals, predictions, den) ==
    LET k == Len(predictions)
        head == IF Len(actuals) <= k THEN actuals ELSE SubSeq(actuals, 1, k)
    IN  IF Len(head) # k THEN "ValueError"
        ELSE LET errors == [i \in 1..k |-> head[i] * den - predictions[i]]
                 interval == Isqrt(z * z * (k * SumSq(errors) - Sum(errors) * Sum(errors)))
                                 \div k
             IN  [i \in 1..k |->
                     <<100 * predictions[i] - interval, 100 * predictions[i] + interval>>]

\* calculate_prediction_interval, lines 291-301, for one prediction or more
\* and one actual or more.  The predictions come times 'den'; the bounds
\* are in hundredths of that unit, the half-width z * np.std(errors)
\* rounded down.  np.std is the population deviation: with k errors of sum
\* S and sum of squares Q it is sqrt(k*Q - S^2) / k.  A tail of one actual
\* is broadcast against the predictions (line 296); any other tail shorter
\* than the predictions raises.
calculate_prediction_interval(actuals, predictions, den) ==
    LET k == Len(predictions)
        tail == LastK(actuals, k)
    IN  IF Len(tail) # k /\ Len(tail) # 1 THEN "ValueError"
        ELSE LET errors == [i \in 1..k |->
                               (IF Len(tail) = k THEN tail[i] ELSE tail[1]) * den
                                   - predictions[i]]
                 interval == Isqrt(z * z * (k * SumSq(errors) - Sum(errors) * Sum(errors)))
                                 \div k
             IN  [i \in 1..k |->
                     <<100 * predictions[i] - interval, 100 * predictions[i] + interval>>]

\* lstm_predict, lines 361-400, once the model and scaler are loaded;
\* outs[i] is the model's output of day i.  Fewer than sequence_length bars
\* (line 367), no day to overwrite (line 387) or fewer bars than days
\* (line 296) raise, which line 398 turns into None.
lstm_forecast(hist, last_date, outs) ==
    IF Len(hist) < sequence_length \/ Len(outs) = 0 \/ Len(hist) < Len(outs) THEN NoneResult
    ELSE LET inv == [i \in 1..Len(outs) |-> inverse_transform(hist, outs[i])]
             last == hist[Len(hist)] * OutputDen
             predicted_close == [inv EXCEPT ![1] = last]
         IN  [model |-> "LSTM-OHLCV", den |-> OutputDen, current_price |-> last,
              predicted_prices |-> predicted_close,
              prediction_dates |-> get_next_trading_days(last_date, Len(outs)),
              confidence |-> PrimaryConfidence,
              prediction_interval |->
                  calculate_prediction_interval(hist, predicted_close, OutputDen)]

\* A variant the code is not: the length test without the margin of 10.
TrainOutcomesNoMargin(hist) ==
    IF Len(hist) < sequence_length THEN {"data_error"}
    ELSE {"ok", "fit_error", "save_error"}

\* train_model (lines 210-278) run alone on the series: where it ends
TrainOutcomes(hist) ==
    IF Len(hist) < sequence_length + TrainingMargin THEN {"data_error"}
    ELSE {"ok", "fit_error", "save_error"}

\* A variant the code is not: predict hands on lstm_predict's None.
route_without_recovery(s, training, lstm, fallback) ==
    IF s \notin Popular \/ training \notin {"-", "ok"} THEN fallback ELSE lstm

\* A variant the code is not: a failed training ends the call with no result.
route_training_error_raises(s, training, lstm, fallback) ==
    IF s \notin Popular THEN fallback
    ELSE IF training \notin {"-", "ok"} THEN NoneResult
    ELSE IF lstm = NoneResult THEN fallback
    ELSE lstm

\* predict, lines 453-467: which forecast it returns.  'training' is how
\* the train_model of line 457 ended, "-" when it was not called.
route(s, training, lstm, fallback) ==
    IF s \notin Popular \/ training \notin {"-", "ok"} THEN fallback
    ELSE IF lstm = NoneResult THEN fallback
    ELSE lstm

\* The symbol as the caller writes it: upper case, or a watch-list symbol
\* in lower case.
lower_case == [s \in Symbols |-> CASE s = "A" -> "a" [] s = "B" -> "b" [] OTHER -> "z"]
Asked == Symbols \cup {lower_case[popular_stocks[1]]}

\* A variant the code is not: the symbol is taken as written.
upper_not_applied(s) == s

\* str.upper (line 452)
upper(s) ==
    IF \E x \in Symbols : lower_case[x] = s
    THEN CHOOSE x \in Symbols : lower_case[x] = s
    ELSE s

ForecastInputs ==
    [stage : {"input"}, asked : Asked, symbol : {"-"}, days : Horizons, hist : Series,
     last_date : BarDays, training : {"-"}, result : {NoneResult}]

InitForecast ==
    /\ Constructed
    /\ fc \in ForecastInputs

\* predict (lines 446-467) called alone, with what its training leaves
\* behind.  The fallback's own fetch (line 408) asks for window + days
\* calendar days, which holds at most that many daily bars.
PredictAlone ==
    /\ fc.stage = "input"
    /\ \E o \in TrainOutcomes(fc.hist), noise \in [1..fc.days -> NoiseUnits],
          outs \in [1..fc.days -> ModelOutputs] :
        LET s == upper(fc.asked)
            trains == s \in Popular /\ should_retrain(s)
            new == Tag(s, 1)
            fallback == simple_moving_average_predict(LastK(fc.hist, window + fc.days),
                                                      fc.last_date, noise)
            lstm == lstm_forecast(fc.hist, fc.last_date, outs)
            training == IF trains THEN o ELSE "-"
        IN  /\ fc' = [fc EXCEPT !.stage = "done", !.symbol = s, !.training = training,
                                !.result = route(s, training, lstm, fallback)]
            /\ IF trains /\ o = "ok"
               THEN /\ modelFile' = [modelFile EXCEPT ![s] = new]
                    /\ scalerFile' = [scalerFile EXCEPT ![s] = new]
                    /\ metricsFile' = [metricsFile EXCEPT ![s] = new]
                    /\ model_info' = [model_info EXCEPT ![s] = clock]
                    /\ model' = new
                    /\ scaler' = LiveFit(s)
               ELSE IF trains /\ o = "save_error"
               THEN /\ modelFile' = [modelFile EXCEPT ![s] = new]
                    /\ model' = new
                    /\ scaler' = new
                    /\ UNCHANGED <<scalerFile, metricsFile, model_info>>
               ELSE IF trains /\ o = "fit_error"
               THEN /\ model' = new
                    /\ scaler' = new
                    /\ UNCHANGED <<modelFile, scalerFile, metricsFile, model_info>>
               ELSE IF s \in Popular /\ ~trains
               THEN /\ model' = modelFile[s]
                    /\ scaler' = IF fc.hist = <<>> THEN scalerFile[s] ELSE LiveFit(s)
                    /\ UNCHANGED <<modelFile, scalerFile, metricsFile, model_info>>
               ELSE UNCHANGED <<model, scaler, modelFile, scalerFile, metricsFile, model_info>>
    /\ UNCHANGED <<currently_training, retraining_lock, legacyModelFile, clock, calls, locals>>

SpecForecast == InitForecast /\ [][PredictAlone]_vars

(***************************************************************************)
(* get_next_trading_days called on any day of two weeks, for any number    *)
(* of days from 0.                                                         *)
(***************************************************************************)
MaxLastDate == 13
MaxNumDays == 4

InitDates ==
    /\ Constructed
    /\ fc \in [stage : {"dates_input"}, last_date : 0..MaxLastDate, num_days : 0..MaxNumDays,
                dates : {<<>>}]

NextTradingDays ==
    /\ fc.stage = "dates_input"
    /\ fc' = [fc EXCEPT !.stage = "dates",
                         !.dates = get_next_trading_days(fc.last_date, fc.num_days)]
    /\ UNCHANGED <<shared, clock, calls, locals>>

SpecDates == InitDates /\ [][NextTradingDays]_vars

(***************************************************************************)
(* calculate_prediction_interval called on one to MaxPreds predictions and *)
(* one to MaxPreds actual closes, around a price of 100.                   *)
(***************************************************************************)
ActualCloses == {99, 101, 103}
PredictedCloses == {100, 101, 102}
SeqsUpTo(S, n) == UNION {[1..k -> S] : k \in 1..n}

InitInterval ==
    /\ Constructed
    /\ fc \in [stage : {"interval_input"}, actuals : SeqsUpTo(ActualCloses, MaxPreds),
                predictions : SeqsUpTo(PredictedCloses, MaxPreds), interval : {<<>>}]

PredictionInterval ==
    /\ fc.stage = "interval_input"
    /\ fc' = [fc EXCEPT !.stage = "interval",
                         !.interval = calculate_prediction_interval(fc.actuals,
                                                                    fc.predictions, 1)]
    /\ UNCHANGED <<shared, clock, calls, locals>>

SpecInterval == InitInterval /\ [][PredictionInterval]_vars

(***************************************************************************)
(* prepare_data (lines 168-179) called on a series of one to MaxBars bars  *)
(* with a window of one to MaxWindow bars.  A bar is its five features in  *)
(* the order of line 224: Open, High, Low, Close, Volume.  A normalised    *)
(* feature is the exact fraction [num, den].                               *)
(***************************************************************************)
MaxBars == 4
MaxWindow == 2
NumFeatures == 5
\* line 178: the index of the close among the features, counted from 0
close_index == 3

Bars == {<<1, 3, 1, 2, 10>>, <<2, 4, 2, 3, 20>>, <<3, 5, 2, 4, 10>>}

Column(data, c) == [i \in 1..Len(data) |-> data[i][c]]

\* MinMaxScaler.fit: the minimum and the range of every feature, a constant
\* feature having the range 1
fit(data) ==
    [c \in 1..NumFeatures |->
        [lo |-> SeqMin(Column(data, c)),
         range |-> IF SeqMax(Column(data, c)) = SeqMin(Column(data, c)) THEN 1
                   ELSE SeqMax(Column(data, c)) - SeqMin(Column(data, c))]]

\* MinMaxScaler.transform of one bar
transform(params, bar) ==
    [c \in 1..NumFeatures |-> [num |-> bar[c] - params[c].lo, den |-> params[c].range]]

\* A variant the code is not: the target is the close of the last bar of
\* the window, scaled_data[i - 1, 3].
prepare_data_target_in_window(data, seq_len) ==
    LET params == fit(data)
        scaled_data == [i \in 1..Len(data) |-> transform(params, data[i])]
        count == IF Len(data) > seq_len THEN Len(data) - seq_len ELSE 0
    IN  [X |-> [k \in 1..count |-> SubSeq(scaled_data, k, k + seq_len - 1)],
         y |-> [k \in 1..count |-> scaled_data[k + seq_len - 1][close_index + 1]]]

\* prepare_data, lines 168-179.  The i of line 176 runs from seq_len to
\* len - 1, counted from 0: pair k (from 1) is i = seq_len + k - 1.
prepare_data(data, seq_len) ==
    LET params == fit(data)
        scaled_data == [i \in 1..Len(data) |-> transform(params, data[i])]
        count == IF Len(data) > seq_len THEN Len(data) - seq_len ELSE 0
    IN  [X |-> [k \in 1..count |-> SubSeq(scaled_data, k, k + seq_len - 1)],
         y |-> [k \in 1..count |-> scaled_data[k + seq_len][close_index + 1]]]

InitWindows ==
    /\ Constructed
    /\ fc \in [stage : {"windows_input"}, data : SeqsUpTo(Bars, MaxBars),
                seq_len : 1..MaxWindow, X : {<<>>}, y : {<<>>}]

PrepareData ==
    /\ fc.stage = "windows_input"
    /\ fc' = [fc EXCEPT !.stage = "windows",
                         !.X = prepare_data(fc.data, fc.seq_len).X,
                         !.y = prepare_data(fc.data, fc.seq_len).y]
    /\ UNCHANGED <<shared, clock, calls, locals>>

SpecWindows == InitWindows /\ [][PrepareData]_vars

(***************************************************************************)
(* The loop of lstm_predict (lines 366-379) on a live series of 60 or 61   *)
(* bars: a flat stretch and two bars after it.  Each step takes one output *)
(* of the model, a normalised close in halves.                             *)
(***************************************************************************)
MaxSteps == 3

WalkSeries ==
    {[i \in 1..(k + 2) |-> IF i <= k THEN pad ELSE IF i = k + 1 THEN b1 ELSE b2] :
        k \in {sequence_length - 2, sequence_length - 1}, pad \in Bars, b1 \in Bars, b2 \in Bars}

\* lines 364-366: the scaler is fitted on the live features, which are
\* transformed; the context is the last sequence_length rows.
last_sequence(features) ==
    LET params == fit(features)
        scaled_data == [i \in 1..Len(features) |-> transform(params, features[i])]
    IN  LastK(scaled_data, sequence_length)

\* A variant the code is not: the row to fill is copied after the roll,
\* when the last row is the oldest bar.
walk_step_copy_after_roll(current_sequence, next_pred_scaled) ==
    LET rolled == Tail(current_sequence) \o <<current_sequence[1]>>
        next_input == [c \in 1..NumFeatures |->
                          IF c <= close_index + 1 THEN next_pred_scaled
                          ELSE rolled[Len(rolled)][c]]
    IN  [rolled EXCEPT ![Len(rolled)] = next_input]

\* lines 372-378: one step of the loop.  next_input is a copy of the last
\* row with the features 0 to 3 set to the prediction; np.roll by -1 moves
\* every row one place earlier and the first row to the end, which line 378
\* overwrites.
walk_step(current_sequence, next_pred_scaled) ==
    LET next_input == [c \in 1..NumFeatures |->
                          IF c <= close_index + 1 THEN next_pred_scaled
                          ELSE current_sequence[Len(current_sequence)][c]]
        rolled == Tail(current_sequence) \o <<current_sequence[1]>>
    IN  [rolled EXCEPT ![Len(rolled)] = next_input]

InitWalk ==
    /\ Constructed
    /\ fc \in {[stage |-> "walk", features |-> h, current_sequence |-> last_sequence(h),
                 predictions |-> <<>>] : h \in WalkSeries}

\* lines 371-379: one iteration
WalkStep ==
    /\ fc.stage = "walk"
    /\ Len(fc.predictions) < MaxSteps
    /\ \E o \in ModelOutputs :
          LET next_pred_scaled == [num |-> o, den |-> OutputDen]
          IN  fc' = [fc EXCEPT !.current_sequence = walk_step(@, next_pred_scaled),
                               !.predictions = Append(@, next_pred_scaled)]
    /\ UNCHANGED <<shared, clock, calls, locals>>

SpecWalk == InitWalk /\ [][WalkStep]_vars

(***************************************************************************)
(* train_model (lines 210-278) called alone, up to MaxTrainings times, on  *)
(* the series the provider returns: rows in date order, the date of row i  *)
(* being i, some of the last rows holding a NaN.  models/model_info.json   *)
(* is 'infoFile'; 'entry' is the whole dict line 265 stored last, of which *)
(* model_info keeps 'last_training'.                                       *)
(***************************************************************************)
MaxTrainings == 2
MaxNaNTail == 2

Row(i, nan) == [date |-> i, nan |-> nan]
NoEntry == [last_training |-> NoInfo, last_data_date |-> 0, data_points |-> 0]

TrainSeries ==
    {[i \in 1..(k + Len(q)) |-> Row(i, IF i <= k THEN FALSE ELSE q[i - k])] :
        k \in {0, sequence_length + TrainingMargin - 2, sequence_length + TrainingMargin - 1,
               sequence_length + TrainingMargin},
        q \in UNION {[1..n -> BOOLEAN] : n \in 0..MaxNaNTail}}

\* line 227: hist_clean.dropna()
dropna(hist) == SelectSeq(hist, LAMBDA r : ~r.nan)

\* A variant the code is not: save_model_info lets its error out, and the
\* except block of train_model (lines 274-276) answers False.
train_result_save_raises(outcome, save_ok) ==
    IF outcome = "ok" /\ save_ok THEN "True" ELSE "False"

\* lines 270-276: what train_model returns.  save_model_info (lines
\* 101-106) catches its own error, so the save does not decide it.
train_result(outcome, save_ok) ==
    IF outcome = "ok" THEN "True" ELSE "False"

\* lines 265-269: the entry, from the rows as fetched (hist, not hist_clean)
info_entry(hist, now) ==
    [last_training |-> now,
     last_data_date |-> hist[Len(hist)].date,
     data_points |-> Len(hist)]

InitTrain ==
    /\ Constructed
    /\ fc = [stage |-> "service", infoFile |-> model_info, load |-> "-", trainings |-> 0,
             symbol |-> "-", hist |-> <<>>, outcome |-> "-", result |-> "-",
             entry |-> NoEntry, save |-> "-", failed_saves |-> 0]

\* load_model_info, lines 90-99, as __init__ calls it (line 87): the file is
\* read, or the read fails and the dict is empty.
LoadModelInfo ==
    /\ fc.stage = "service"
    /\ fc.load = "-"
    /\ fc.trainings = 0
    /\ \E ok \in BOOLEAN :
          /\ model_info' = IF ok THEN fc.infoFile ELSE [s \in Symbols |-> NoInfo]
          /\ fc' = [fc EXCEPT !.load = IF ok THEN "ok" ELSE "error"]
    /\ UNCHANGED <<model, scaler, currently_training, retraining_lock, modelFile, scalerFile,
                   metricsFile, legacyModelFile, clock, calls, locals>>

\* train_model(s), start to end, with what it leaves behind.
TrainAlone ==
    /\ fc.stage = "service"
    /\ fc.trainings < MaxTrainings
    /\ \E s \in Popular, hist \in TrainSeries, save_ok \in BOOLEAN :
        \E o \in TrainOutcomes(dropna(hist)) :
          LET new == Tag(s, fc.trainings + 1)
              info == [model_info EXCEPT ![s] = clock]
          IN  /\ IF o = "ok"
                 THEN /\ modelFile' = [modelFile EXCEPT ![s] = new]
                      /\ scalerFile' = [scalerFile EXCEPT ![s] = new]
                      /\ metricsFile' = [metricsFile EXCEPT ![s] = new]
                      /\ model_info' = info
                      /\ model' = new
                      /\ scaler' = new
                 ELSE IF o = "save_error"
                 THEN /\ modelFile' = [modelFile EXCEPT ![s] = new]
                      /\ model' = new
                      /\ scaler' = new
                      /\ UNCHANGED <<scalerFile, metricsFile, model_info>>
                 ELSE IF o = "fit_error"
                 THEN /\ model' = new
                      /\ scaler' = new
                      /\ UNCHANGED <<modelFile, scalerFile, metricsFile, model_info>>
                 ELSE UNCHANGED <<model, scaler, modelFile, scalerFile, metricsFile,
                                  model_info>>
              /\ fc' = [fc EXCEPT
                          !.trainings = @ + 1,
                          !.symbol = s,
                          !.hist = hist,
                          !.outcome = o,
                          !.result = train_result(o, save_ok),
                          !.entry = IF o = "ok" THEN info_entry(hist, clock) ELSE NoEntry,
                          !.save = IF o # "ok" THEN "-" ELSE IF save_ok THEN "ok" ELSE "error",
                          !.failed_saves = IF o = "ok" /\ ~save_ok THEN @ + 1 ELSE @,
                          !.infoFile = IF o = "ok" /\ save_ok THEN info ELSE @]
    /\ UNCHANGED <<currently_training, retraining_lock, legacyModelFile, clock, calls, locals>>

NextTrain ==
    \/ Tick
    \/ LoadModelInfo
    \/ TrainAlone

SpecTrain == InitTrain /\ [][NextTrain]_vars

(***************************************************************************)
(* The claims.                                                             *)
(***************************************************************************)
Training(t, s) == admitted[t] /\ sym[t] = s

\* C1: admission to training is an atomic check-and-insert: for any one
\* symbol at most one training job is between admission (line 219) and
\* release (line 278) at any time.
C1_OneJobPerSymbol ==
    \A s \in Symbols : Cardinality({t \in Threads : Training(t, s)}) <= 1

\* C2: the forecaster's read of a symbol's artifact (lines 352-353) never
\* overlaps train_model's write of it (lines 254-256): no forecaster is
\* between its two loads while a trainer of that symbol is between its two
\* writes, and the model and the scaler a forecaster loaded are of one run.
BetweenWrites(u, s) ==
    Training(u, s) /\ pc[u] \in {"tm_fit_scaler", "tm_dump_scaler"}

C2_ReadNeverOverlapsWrite ==
    \A t \in Threads :
        /\ pc[t] = "lp_load_scaler" => \A u \in Threads : ~BetweenWrites(u, sym[t])
        /\ (loaded[t][1] # NoTag /\ loaded[t][2] # NoTag) => loaded[t][1] = loaded[t][2]

\* C3: a forecast for a symbol is computed only from that symbol's model
\* and that symbol's scaler, whatever runs for another symbol.
C3_ForecastFromOwnSymbol ==
    \A t \in Threads :
        result[t] = "LSTM" =>
            /\ \A m \in used[t].model : m.sym = sym[t]
            /\ used[t].norm.sym = sym[t]
            /\ used[t].denorm.sym = sym[t]

JobRunningFor(t) ==
    \/ admitted[t]
    \/ \E u \in Threads : spawner[u] = t /\ op[u] # "idle" /\ pc[u] # "done"

C7_RefusedGetsTrainingStatus ==
    \A t \in Threads :
        (op[t] = "predict" /\ pc[t] = "done" /\ rejected[t]) =>
            (result[t] = "training" /\ jobs[t] = 0)

\* C8: a symbol is in currently_training only while a job admitted for it
\* is still between line 219 and line 278: once the jobs have ended, by
\* success or by failure at any step, the symbol is not in the set and the
\* next train_model for it passes line 215.
C8_EndTrainingAlways ==
    \A s \in Symbols :
        s \in currently_training => \E t \in Threads : Training(t, s)

C8_Witness ==
    /\ currently_training = {}
    /\ \E t \in Threads :
        /\ op[t] = "pretrain"
        /\ pc[t] = "done"
        /\ results[t]["A"] = "False"
        /\ results[t]["B"] = "True"

\* C9: when train_model ends in failure, no component of the symbol's
\* persisted artifact belongs to the failed run.
C9_FailureLeavesArtifact ==
    \A t \in Threads :
        (pc[t] = "tm_finally" /\ tres[t] = "False") =>
            /\ modelFile[sym[t]].run # run[t]
            /\ scalerFile[sym[t]].run # run[t]
            /\ metricsFile[sym[t]].run # run[t]

\* C4: after a successful train_model(symbol) in this process,
\* should_retrain(symbol) is False until more than one day has passed since
\* 'last_training' and the time is past 16:00.
\* The job of this process that wrote the symbol's metrics (line 261) has
\* ended: nothing after that line fails, so it returned True.
TrainedHere(s) == metricsFile[s].run >= 1 /\ \A t \in Threads : ~Training(t, s)

C4_NoRetrainSameDay ==
    \A s \in Popular :
        (TrainedHere(s) /\ should_retrain(s)) => Stale(model_info[s], clock)

\* C5: should_retrain(symbol) is True when the symbol has no artifact, and
\* otherwise is True exactly when more than one day has passed since
\* 'last_training' and the time is past 16:00.
ArtifactExists(s) ==
    model_info[s] # NoInfo /\ modelFile[s] # NoTag /\ scalerFile[s] # NoTag

C5_ShouldRetrainRule ==
    \A s \in Popular :
        should_retrain(s) <=> (~ArtifactExists(s) \/ Stale(model_info[s], clock))

\* C10: in every successful forecast of predict, whichever forecaster made
\* it, the first predicted price equals the current price.
C10_FirstPriceIsCurrentPrice ==
    (fc.stage = "done" /\ fc.result # NoneResult) =>
        fc.result.predicted_prices[1] = fc.result.current_price

\* C11: every forecast predict returns, primary or fallback, has N predicted
\* prices, N prediction dates and an interval of N entries.
C11_ResultLengths ==
    (fc.stage = "done" /\ fc.result # NoneResult) =>
        /\ Len(fc.result.predicted_prices) = fc.days
        /\ Len(fc.result.prediction_dates) = fc.days
        /\ "prediction_interval" \in DOMAIN fc.result
        /\ Len(fc.result.prediction_interval) = fc.days

\* The weekdays among the days after 'from' up to 'to'.
WeekdaysBetween(from, to) == {d \in (from + 1)..to : d % DaysPerWeek < Saturday}

\* C12: get_next_trading_days(last_date, N) returns N dates, strictly
\* increasing, all after last_date, none a Saturday or Sunday, the entry at
\* index i being the (i+1)-th weekday after last_date.
C12_NextTradingDays ==
    fc.stage = "dates" =>
        /\ Len(fc.dates) = fc.num_days
        /\ \A i \in 1..Len(fc.dates) :
              /\ fc.dates[i] > fc.last_date
              /\ fc.dates[i] % DaysPerWeek < Saturday
              /\ i > 1 => fc.dates[i] > fc.dates[i - 1]
              /\ Cardinality(WeekdaysBetween(fc.last_date, fc.dates[i])) = i

\* From a Saturday, two days: the Monday and the Tuesday after it.
C12_Witness ==
    /\ fc.stage = "dates"
    /\ fc.last_date % DaysPerWeek = Saturday
    /\ fc.num_days = 2
    /\ fc.dates = <<fc.last_date + 2, fc.last_date + 3>>

\* C13 as stated: predict returns the fallback's forecast exactly when the
\* symbol is outside the watch-list or its training failed.
C13_FallbackOnlyOnTrainingFailure ==
    (fc.stage = "done" /\ fc.hist # <<>>) =>
        (fc.result.model = "SMA" <=>
             (fc.symbol \notin Popular \/ fc.training \notin {"-", "ok"}))

\* C13: predict returns the fallback's forecast exactly when there is a
\* price history and the symbol is outside the watch-list, or its training
\* failed, or the primary forecast failed (fewer than 60 bars).
C13_FallbackRouting ==
    fc.stage = "done" =>
        (fc.result.model = "SMA" <=>
             /\ fc.hist # <<>>
             /\ \/ fc.symbol \notin Popular
                \/ fc.training \notin {"-", "ok"}
                \/ Len(fc.hist) < sequence_length)

\* A watch-list symbol with 69 bars: training fails, the fallback answers.
C13_Witness ==
    /\ fc.stage = "done"
    /\ fc.symbol \in Popular
    /\ Len(fc.hist) = sequence_length + TrainingMargin - 1
    /\ fc.training = "data_error"
    /\ fc.result.model = "SMA"

\* C14: train_model accepts a series of L bars iff L >= 60 + 10: a shorter
\* one fails before any model is fitted or any file is written, and a
\* series of 70 bars or more is not rejected for its length.
C14_LengthPrecondition ==
    (fc.stage = "done" /\ fc.training # "-") =>
        IF Len(fc.hist) < sequence_length + TrainingMargin
        THEN /\ fc.training = "data_error"
             /\ model = NoTag
             /\ scaler = NoTag
             /\ modelFile[fc.symbol].run = 0
             /\ scalerFile[fc.symbol].run = 0
             /\ metricsFile[fc.symbol].run = 0
        ELSE fc.training # "data_error"

\* Exactly 70 bars are trained on.
C14_Witness ==
    /\ fc.stage = "done"
    /\ Len(fc.hist) = sequence_length + TrainingMargin
    /\ fc.training = "ok"
    /\ modelFile[fc.symbol].run = 1

\* C15: the mapping pretrain_all_popular_stocks returns has, for every
\* watch-list symbol, a boolean: True iff that symbol's training succeeded,
\* also when another thread is training one of the symbols.
C15_PretrainResultsBoolean ==
    \A t \in Threads :
        (op[t] = "pretrain" /\ pc[t] = "done") =>
            \A s \in Popular : results[t][s] \in {"True", "False"}

RetrainedBy(b) ==
    /\ op[b] = "retrain_thread"
    /\ pc[b] = "done"
    /\ jobs[b] = 1
    /\ metricsFile[sym[b]].run = JobsPerCall * (callNo[b] - 1) + 1

\* C17: when retrain_if_needed calls for one symbol race and the training
\* of the first daemon thread succeeded, the re-check under the lock makes
\* the later thread skip training: it is never admitted.
C17_RecheckSkipsTraining ==
    \A b1 \in Threads : \A b2 \in Threads :
        (b1 # b2 /\ RetrainedBy(b1) /\ op[b2] = "retrain_thread" /\ sym[b2] = sym[b1])
            => ~admitted[b2]

\* The daemon thread b is inside the with block of line 315.
InLock(b) == op[b] = "retrain_thread" /\ pc[b] \notin {"rt_lock", "done"}

WindowSum == Sum(LastK(fc.hist, window))
WindowSpread ==
    40000 * (Len(LastK(fc.hist, window)) * SumSq(LastK(fc.hist, window))
                - WindowSum * WindowSum)

\* C20 as stated: the fallback's confidence equals
\* clamp(0.7 - std/mean, 0.3, 0.7), here in hundredths.
C20_ConfidenceIsClamp ==
    (fc.stage = "done" /\ fc.result.model = "SMA") =>
        LET r == fc.result.confidence
            k == 2 * (MaxConfidence - r)
        IN  IF 6400 * WindowSum * WindowSum <= WindowSpread
            THEN r = MinConfidence
            ELSE k * k * WindowSum * WindowSum = WindowSpread

\* C20: the fallback's confidence lies in [0.3, 0.7] and is
\* clamp(0.7 - std/mean, 0.3, 0.7) rounded to two decimals (within half a
\* hundredth of it); the primary forecast's confidence lies in [0, 1].
C20_ConfidenceRange ==
    (fc.stage = "done" /\ fc.result # NoneResult) =>
        LET r == fc.result.confidence
            k == 2 * (MaxConfidence - r)
        IN  IF fc.result.model = "SMA"
            THEN /\ r \in MinConfidence..MaxConfidence
                 /\ r > MinConfidence =>
                        (k + 1) * (k + 1) * WindowSum * WindowSum >= WindowSpread
                 /\ r < MaxConfidence =>
                        (k - 1) * (k - 1) * WindowSum * WindowSum <= WindowSpread
            ELSE r \in 0..100

\* A fallback forecast whose confidence is strictly between the two ends.
C20_Witness ==
    /\ fc.stage = "done"
    /\ fc.result.model = "SMA"
    /\ fc.result.confidence > MinConfidence
    /\ fc.result.confidence < MaxConfidence

\* The errors of line 296 for the call followed: the last len(predictions)
\* actuals, each less its prediction; n^2 times their variance.
TailErrors ==
    [i \in 1..Len(fc.predictions) |->
        fc.actuals[Len(fc.actuals) - Len(fc.predictions) + i] - fc.predictions[i]]
TailSpread ==
    Len(TailErrors) * Sum([i \in 1..Len(TailErrors) |-> TailErrors[i] * TailErrors[i]])
        - Sum(TailErrors) * Sum(TailErrors)

\* C21: for at least as many actuals as predictions, the interval estimator
\* returns one (lower, upper) pair per prediction with lower <= predicted
\* <= upper; every pair is the prediction less and plus one half-width,
\* which is z times the deviation of the errors between the last
\* len(predictions) actuals and the predictions (here in hundredths,
\* rounded down), and is 0 when the errors do not vary.
C21_IntervalAroundPrediction ==
    (fc.stage = "interval" /\ Len(fc.actuals) >= Len(fc.predictions)) =>
        LET k == Len(fc.predictions)
            half == fc.interval[1][2] - 100 * fc.predictions[1]
        IN  /\ Len(fc.interval) = k
            /\ half >= 0
            /\ \A i \in 1..k :
                  /\ fc.interval[i][1] <= 100 * fc.predictions[i]
                  /\ 100 * fc.predictions[i] <= fc.interval[i][2]
                  /\ fc.interval[i][1] = 100 * fc.predictions[i] - half
                  /\ fc.interval[i][2] = 100 * fc.predictions[i] + half
            /\ (half * k) * (half * k) <= z * z * TailSpread
            /\ z * z * TailSpread < ((half + 1) * k) * ((half + 1) * k)
            /\ TailSpread = 0 => half = 0

\* Predictions 100, 101, 102 against the actual tail 99, 103, 101: the
\* errors -1, 2, -1 have deviation sqrt(2) and the half-width is 2.77.
C21_Witness ==
    /\ fc.stage = "interval"
    /\ fc.predictions = <<100, 101, 102>>
    /\ fc.actuals = <<99, 103, 101>>
    /\ fc.interval[2] = <<10100 - 277, 10100 + 277>>

\* What the fallback starts from on the call followed, times the result's
\* 'den': the mean of the last 20 closes (line 413) and half the mean
\* day-over-day change of the last 10 (lines 425, 430).
FallbackSma == 2 * (TrendWindow - 1) * Sum(LastK(fc.hist, window))
FallbackTrend ==
    LET recent_prices == LastK(fc.hist, window)
        n == Len(recent_prices)
    IN  IF n >= TrendWindow
        THEN n * (recent_prices[n] - recent_prices[n - TrendWindow + 1])
        ELSE 0

\* C22: every price the fallback projects is at least half the last actual
\* close, at every step; a price above that floor is the previous one plus
\* half the trend plus a noise draw, and a price on the floor is where that
\* sum would not be above it.
C22_FallbackFloor ==
    (fc.stage = "done" /\ fc.result.model = "SMA") =>
        LET r == fc.result
            prev(i) == IF i = 1 THEN FallbackSma ELSE r.predicted_prices[i - 1]
        IN  \A i \in 1..Len(r.predicted_prices) :
                /\ 2 * r.predicted_prices[i] >= r.current_price
                /\ \E noise \in NoiseUnits :
                      LET drift == prev(i) + FallbackTrend + noise * r.den
                      IN  IF 2 * drift >= r.current_price
                          THEN r.predicted_prices[i] = drift
                          ELSE 2 * r.predicted_prices[i] = r.current_price

\* Two days ahead, the first price held up by the floor: with the lowest
\* draw the sum before it was lower; the second price is above the floor.
C22_Witness ==
    /\ fc.stage = "done"
    /\ fc.result.model = "SMA"
    /\ fc.days = 2
    /\ 2 * fc.result.predicted_prices[1] = fc.result.current_price
    /\ 2 * (FallbackSma + FallbackTrend - MaxNoise * fc.result.den) < fc.result.current_price
    /\ fc.result.predicted_prices[2] > fc.result.predicted_prices[1]

\* C23: lstm_predict normalizes the live series with the scaler persisted
\* with the symbol's model, not a refit of it, and denormalizes the
\* predicted closes with that same fit.
C23_PersistedScalerReused ==
    \A t \in Threads :
        used[t].norm # NoTag =>
            /\ used[t].norm = scalerFile[sym[t]]
            /\ used[t].denorm # NoTag => used[t].denorm = used[t].norm

\* Feature c of bar i of the series followed, normalised over the series.
Normalised(i, c) ==
    LET col == Column(fc.data, c)
    IN  [num |-> fc.data[i][c] - SeqMin(col),
         den |-> IF SeqMax(col) = SeqMin(col) THEN 1 ELSE SeqMax(col) - SeqMin(col)]

\* C24: for a series of L bars and a window W <= L, prepare_data emits
\* exactly L - W pairs; the window of pair k is the W normalised bars
\* k .. k+W-1 in order, and its target is the normalised close of bar k+W,
\* the bar after the window.
C24_WindowsAndTargets ==
    (fc.stage = "windows" /\ Len(fc.data) >= fc.seq_len) =>
        /\ Len(fc.X) = Len(fc.data) - fc.seq_len
        /\ Len(fc.y) = Len(fc.data) - fc.seq_len
        /\ \A k \in 1..(Len(fc.data) - fc.seq_len) :
              /\ Len(fc.X[k]) = fc.seq_len
              /\ \A j \in 1..fc.seq_len : \A c \in 1..NumFeatures :
                    fc.X[k][j][c] = Normalised(k + j - 1, c)
              /\ fc.y[k] = Normalised(k + fc.seq_len, close_index + 1)

\* Four bars and a window of two: two pairs, the second target differing
\* from the close of the last bar of its window.
C24_Witness ==
    /\ fc.stage = "windows"
    /\ Len(fc.data) = 4
    /\ fc.seq_len = 2
    /\ Len(fc.X) = 2
    /\ fc.y[2] # fc.X[2][2][close_index + 1]

\* C25: after n steps of the walk the context still has W rows: the first
\* W - n are the rows n+1 .. W of the starting context, in order, and the
\* last n are synthesized, row i of them having the i-th predicted close
\* as open, high, low and close and the volume of the last observed bar.
C25_SlidingContext ==
    fc.stage = "walk" =>
        LET n == Len(fc.predictions)
            W == sequence_length
            data == fc.features
            first == Len(data) - W
        IN  /\ Len(fc.current_sequence) = W
            /\ \A c \in 1..NumFeatures :
                  LET lo == SeqMin(Column(data, c))
                      hi == SeqMax(Column(data, c))
                      range == IF hi = lo THEN 1 ELSE hi - lo
                  IN  /\ \A j \in 1..(W - n) :
                            fc.current_sequence[j][c]
                                = [num |-> data[first + j + n][c] - lo, den |-> range]
                      /\ \A i \in 1..n :
                            fc.current_sequence[W - n + i][c] =
                                IF c <= close_index + 1 THEN fc.predictions[i]
                                ELSE [num |-> data[Len(data)][c] - lo, den |-> range]

\* Three steps done on a series whose oldest bar in the context has another
\* volume than its last bar.
C25_Witness ==
    /\ fc.stage = "walk"
    /\ Len(fc.predictions) = MaxSteps
    /\ fc.features[Len(fc.features) - sequence_length + 1][NumFeatures]
          # fc.features[Len(fc.features)][NumFeatures]
    /\ fc.predictions[1] # fc.predictions[MaxSteps]

\* C26: after a successful train_model the symbol's entry records the time
\* of the training, the date of the last bar of the series trained on and
\* the number L of bars of that series, the one that passed the length
\* test and was windowed.
C26_MetadataOfTrainedSeries ==
    (fc.stage = "service" /\ fc.result = "True") =>
        LET hist_clean == dropna(fc.hist)
        IN  /\ model_info[fc.symbol] = fc.entry.last_training
            /\ fc.entry.last_data_date = hist_clean[Len(hist_clean)].date
            /\ fc.entry.data_points = Len(hist_clean)

\* C27: an error while saving or loading model_info.json does not reach the
\* caller: a training whose steps all succeeded returns True whatever the
\* save did, its entry is in model_info, the save was attempted, and a
\* save that succeeded wrote the whole of model_info, the entries of
\* earlier failed saves with it; a failed load leaves an empty model_info.
C27_PersistenceErrorSwallowed ==
    fc.stage = "service" =>
        /\ fc.outcome = "ok" =>
              /\ fc.result = "True"
              /\ fc.save \in {"ok", "error"}
              /\ model_info[fc.symbol] = fc.entry.last_training
              /\ fc.save = "ok" => fc.infoFile = model_info
        /\ (fc.load = "error" /\ fc.trainings = 0) =>
              \A s \in Symbols : model_info[s] = NoInfo /\ should_retrain(s)

\* The save of the first training failed; the second training, of the
\* other symbol, saved both entries.
C27_Witness ==
    /\ fc.stage = "service"
    /\ fc.trainings = 2
    /\ fc.failed_saves = 1
    /\ fc.save = "ok"
    /\ fc.result = "True"
    /\ fc.load = "error"
    /\ \A s \in Popular : fc.infoFile[s] # NoInfo

\* C28: train_model called for a symbol that is in currently_training
\* returns 'training' to its caller and changes nothing: the set (the
\* symbol stays in it), model_info, the model and the scaler in memory and
\* every file are as before, and the call was not admitted.
C28_RefusedCallChangesNothing ==
    [][
        \A t \in Threads :
            (/\ pc[t] = "tm_check"
             /\ sym[t] \in currently_training
             /\ (pc'[t] # pc[t] \/ idx'[t] # idx[t])) =>
                /\ UNCHANGED shared
                /\ sym[t] \in currently_training'
                /\ admitted'[t] = admitted[t]
                /\ jobs'[t] = jobs[t]
                /\ CASE ret[t] = "predict" -> rejected'[t] /\ pc'[t] = "lp_exists"
                     [] ret[t] = "lstm_predict" -> result'[t] = "training" /\ pc'[t] = "done"
                     [] ret[t] = "pretrain" -> results'[t][sym[t]] = "training"
                     [] ret[t] = "retrain_thread" -> pc'[t] = "rt_unlock"
    ]_vars

\* predict's train_model was refused while another thread is still training
\* the symbol, which is still in the set.
C28_Witness ==
    \E t \in Threads : \E u \in Threads :
        /\ u # t
        /\ op[t] = "predict" /\ pc[t] = "lp_exists" /\ rejected[t] /\ jobs[t] = 0
        /\ Training(u, sym[t])
        /\ sym[t] \in currently_training

\* The symbol as written names a watch-list symbol, whatever its case.
OnWatchList(asked) == \E x \in Popular : asked \in {x, lower_case[x]}

\* C29: predict for a symbol that is not on the watch-list in either case
\* starts no training and leaves currently_training, model_info, the model
\* and the scaler in memory and every file as they were, answering with the
\* fallback; a watch-list symbol written in lower case is a watch-list
\* symbol, and is trained when should_retrain says so.
C29_OffListPredictTouchesNothing ==
    [][
        (fc.stage = "input" /\ fc'.stage = "done") =>
            IF OnWatchList(fc.asked)
            THEN /\ fc'.symbol \in Popular
                 /\ should_retrain(fc'.symbol) => fc'.training # "-"
            ELSE /\ UNCHANGED shared
                 /\ fc'.training = "-"
                 /\ fc'.result.model \in {"SMA", "None"}
    ]_vars

\* A symbol outside the watch-list with a series long enough to train on:
\* the fallback answered and nothing was trained or loaded.
C29_Witness ==
    /\ fc.stage = "done"
    /\ fc.symbol \notin Popular
    /\ Len(fc.hist) >= sequence_length + TrainingMargin
    /\ fc.result.model = "SMA"
    /\ model = NoTag
    /\ modelFile[fc.symbol] = NoTag
    /\ model_info[fc.symbol] = NoInfo

\* C30: one predict call runs at most one training job, in every
\* interleaving: after its own train_model returned True, lstm_predict
\* finds both files and does not train; after False it does not reach
\* lstm_predict; lstm_predict calls train_model only when no job of this
\* call ran before.
C30_OneTrainingPerPredict ==
    \A t \in Threads :
        op[t] = "predict" =>
            /\ jobs[t] <= 1
            /\ (pc[t] = "lp_exists" /\ jobs[t] = 1) =>
                  (modelFile[sym[t]] # NoTag /\ scalerFile[sym[t]] # NoTag)
            /\ (ret[t] = "lstm_predict" /\ pc[t] = "tm_check") => jobs[t] = 0

\* predict's own train_model was refused and lstm_predict then ran the one
\* training job of the call, which succeeded.
C30_Witness ==
    \E t \in Threads :
        /\ op[t] = "predict"
        /\ rejected[t]
        /\ ret[t] = "lstm_predict"
        /\ pc[t] = "lp_fit_scaler"
        /\ jobs[t] = 1

====
